---- MODULE Spec2Model ----
(***************************************************************************)
(* Blood-unit lifecycle, transfer ledger, inventory cache and blood-request *)
(* state machine of the blood donation backend.                             *)
(*                                                                          *)
(* Every request handler is a sequence of steps, one per database round     *)
(* trip (each `await` of a query or of a save); steps of the handlers run   *)
(* by different processes interleave freely.  A document read by a handler  *)
(* is a private in-memory copy (local[p]); save() writes the paths the      *)
(* handler modified, an array push being written as an append.              *)
(* Time is counted in whole days.                                           *)
(***************************************************************************)
EXTENDS Integers, Sequences, FiniteSets, TLC

\* ------------------------------------------------------------------ bounds
MaxUnits == 1
MaxLedger == 2
MaxTime == 1
MaxRequests == 1
MaxServed == 2
MaxCalls == 4
MaxStored == 3

\* ------------------------------------------------------- program constants
ExpiryDays == 42

\* --------------------------------------------------------------- universes
Procs == {"p1", "p2"}
NGOs == {"n1", "n2"}
Hospitals == {"h1", "h2"}
Centers == {"c1", "c2"}
Donors == {"d1"}
NoVal == "none"

\* The NGO that operates each center (Center.ngoId).
CenterOwner == [c \in Centers |-> IF c = "c1" THEN "n1" ELSE "n2"]

\* Blood groups of the schema enum the model draws inputs from, in the order
\* of the bloodGroups array, and a value outside the enum.
BloodGroups == <<"A+", "O-">>
GroupSet == {BloodGroups[i] : i \in 1..Len(BloodGroups)}
BadGroup == "X"

\* The list of statuses with one more value let through.
validStatuses_Open ==
  {"processing", "available", "assigned", "used", "expired", "discarded", "bogus"}

\* validStatuses of updateBloodDonationStatus.
validStatuses == {"processing", "available", "assigned", "used", "expired", "discarded"}
BadStatus == "bogus"

validEntityTypes == {"NGO", "Center", "Hospital"}
BadEntityType == "Donor"

validRequestStatuses ==
  {"Pending", "Accepted", "Rejected", "Processing", "En Route", "Delivered", "Completed"}

\* Destinations offered to a transfer: (id, kind) pairs.
Destinations ==
  { [id |-> "h1", type |-> "Hospital"],
    [id |-> "c2", type |-> "Center"],
    [id |-> "n2", type |-> "NGO"],
    [id |-> "h1", type |-> BadEntityType],
    [id |-> NoVal, type |-> "Hospital"] }

\* Collection dates a client may supply, as days before the call.
PastDays == {ExpiryDays - 1}

\* Bodies offered to registerBloodDonation: well-formed ones, with and
\* without a collection date, and a well-formed one with one field missing,
\* outside the schema, or naming a center of another NGO.
RegisterInputs ==
  { [caller |-> "n1", userId |-> "d1", centerId |-> "c1", bloodGroup |-> "A+",
     dateGiven |-> FALSE, daysAgo |-> 0] }
  \cup { [caller |-> "n1", userId |-> "d1", centerId |-> "c1", bloodGroup |-> "O-",
          dateGiven |-> TRUE, daysAgo |-> d] : d \in PastDays }
  \cup { [caller |-> "n2", userId |-> "d1", centerId |-> "c1", bloodGroup |-> "A+",
          dateGiven |-> FALSE, daysAgo |-> 0],
         [caller |-> "n1", userId |-> "d1", centerId |-> "c2", bloodGroup |-> "A+",
          dateGiven |-> FALSE, daysAgo |-> 0],
         [caller |-> "n1", userId |-> NoVal, centerId |-> "c1", bloodGroup |-> "A+",
          dateGiven |-> FALSE, daysAgo |-> 0],
         [caller |-> "n1", userId |-> "d1", centerId |-> NoVal, bloodGroup |-> "A+",
          dateGiven |-> FALSE, daysAgo |-> 0],
         [caller |-> "n1", userId |-> "d1", centerId |-> "c1", bloodGroup |-> NoVal,
          dateGiven |-> FALSE, daysAgo |-> 0],
         [caller |-> "n1", userId |-> "d1", centerId |-> "c1", bloodGroup |-> BadGroup,
          dateGiven |-> FALSE, daysAgo |-> 0] }

\* Bodies offered to updateBloodDonationStatus by the NGO that registers the
\* units, and by another NGO.
StatusInputs ==
  { [caller |-> "n1", unitId |-> u, status |-> st] :
      u \in 1..MaxUnits, st \in validStatuses \cup {BadStatus, NoVal} }
  \cup { [caller |-> "n2", unitId |-> u, status |-> st] :
           u \in 1..MaxUnits, st \in {"available", BadStatus} }

\* Bodies offered to transferBloodUnit: the destinations with and without a
\* request id, and one by another NGO.  Request id 0 stands for none.
TransferInputs ==
  { [caller |-> "n1", unitId |-> u, dest |-> d, requestId |-> 0] :
      u \in 1..MaxUnits, d \in Destinations }
  \cup { [caller |-> "n1", unitId |-> u, dest |-> d, requestId |-> 1] :
           u \in 1..MaxUnits,
           d \in { [id |-> "h1", type |-> "Hospital"], [id |-> "c2", type |-> "Center"] } }
  \cup { [caller |-> "n2", unitId |-> u, dest |-> [id |-> "h1", type |-> "Hospital"],
          requestId |-> 1] : u \in 1..MaxUnits }

\* Responses of a handler.
Pending == "pending"
OK == "ok"
E400 == "400 validation"
E400State == "400 invalid state"
E404 == "404 not found"
E500 == "500 internal"

VARIABLES
  now,        \* the clock, in days
  units,      \* BloodDonation collection: sequence of documents, _id = index
  centers,    \* Center collection: [Centers -> document]
  ngos,       \* NGO collection: [NGOs -> statistics]
  requests,   \* BloodRequest collection: sequence of documents, _id = index
  pc,         \* [Procs -> the step the process's handler is at]
  call,       \* [Procs -> the inputs of the call the process is handling]
  local,      \* [Procs -> the documents the handler holds in memory]
  event,      \* the call answered by the last step (inputs and response), if any
  started,    \* how many calls were taken up so far, counted up to MaxCalls
  overlapped, \* whether a call was taken up while another was being handled
  serial      \* whether the run handles one call at a time and keeps its answer in event

vars == <<now, units, centers, ngos, requests, pc, call, local, event, started, overlapped, serial>>

\* ------------------------------------------------------------------ helpers
Last(s) == s[Len(s)]

IsPrefix(s, t) == Len(s) <= Len(t) /\ \A i \in 1..Len(s) : s[i] = t[i]

UnitIds == 1..MaxUnits
RequestIds == 1..MaxRequests

\* The match on the entityId of the embedded document alone.
SubdocEquals_ByEntityId(stored, query) == stored.entityId = query.entityId

\* The match on the fields the query document names.
SubdocEquals_QueryFields(stored, query) ==
  \A f \in DOMAIN query : f \in DOMAIN stored /\ stored[f] = query[f]

\* MongoDB equality match of an embedded document against a query document:
\* the stored document must equal the query document field for field.
SubdocEquals(stored, query) ==
  /\ DOMAIN stored = DOMAIN query
  /\ \A f \in DOMAIN query : stored[f] = query[f]

NoCall ==
  [ op |-> NoVal, caller |-> NoVal, userId |-> NoVal, centerId |-> NoVal,
    bloodGroup |-> NoVal, dateGiven |-> FALSE, dateValue |-> 0,
    unitId |-> 0, status |-> NoVal, toEntityId |-> NoVal,
    toEntityType |-> NoVal, requestId |-> 0, receivedBy |-> NoVal,
    confirmationCode |-> NoVal, groupsGiven |-> FALSE, bloodGroups |-> << >>,
    ngoId |-> NoVal, days |-> NoVal, found |-> << >>, inventory |-> {},
    resp |-> NoVal ]

NoLocal == [ unit |-> NoVal, center |-> NoVal, counts |-> NoVal, req |-> NoVal,
             ngo |-> NoVal, held |-> NoVal ]

\* ------------------------------------------------- BloodDonation documents

\* The new document made with the status of a tested unit.
NewDonation_Available(ngo, userId, centerId, bloodGroup, donationDate) ==
  [ userId |-> userId, ngoId |-> ngo, centerId |-> centerId,
    bloodGroup |-> bloodGroup, donationDate |-> donationDate,
    status |-> "available", expirySet |-> FALSE, expiryDate |-> 0,
    transferHistory |-> << >>,
    currentLocation |-> [entityId |-> centerId, entityType |-> "Center", updatedAt |-> "date"] ]

\* new BloodDonation({...}) in registerBloodDonation: the in-memory document
\* before its first save.  expirySet tells whether expiryDate holds a date.
NewDonation(ngo, userId, centerId, bloodGroup, donationDate) ==
  [ userId |-> userId, ngoId |-> ngo, centerId |-> centerId,
    bloodGroup |-> bloodGroup, donationDate |-> donationDate,
    status |-> "processing", expirySet |-> FALSE, expiryDate |-> 0,
    transferHistory |-> << >>,
    currentLocation |-> [entityId |-> centerId, entityType |-> "Center", updatedAt |-> "date"] ]

\* setDate(getDate() + 42): the date 42 days after the donation date.
ExpiryFrom(donationDate) == donationDate + ExpiryDays

\* A document in memory: its fields, the paths assigned since it was read or
\* saved (dirty) and the number of entries pushed on transferHistory since.
Tracked(d) == [doc |-> d, dirty |-> {}, pushed |-> 0]

\* donation.status = st: the path is marked only when the value changes.
AssignStatus(m, st) ==
  IF m.doc.status = st THEN m
  ELSE [m EXCEPT !.doc.status = st, !.dirty = @ \cup {"status"}]

\* The pre-save hook deriving the expiry date from the time of the save.
PreSave_FromNow(m) ==
  LET a == IF ~m.doc.expirySet
           THEN [m EXCEPT !.doc.expiryDate = ExpiryFrom(now),
                          !.doc.expirySet = TRUE,
                          !.dirty = @ \cup {"expiryDate"}]
           ELSE m
  IN IF a.doc.currentLocation.entityId = NoVal
     THEN [a EXCEPT !.doc.currentLocation =
                        [entityId |-> a.doc.centerId, entityType |-> "Center",
                         updatedAt |-> "date"],
                    !.dirty = @ \cup {"currentLocation"}]
     ELSE a

\* The pre-save hook also marking an available unit past its expiry expired.
PreSave_Expires(m) ==
  LET a == IF ~m.doc.expirySet
           THEN [m EXCEPT !.doc.expiryDate = ExpiryFrom(m.doc.donationDate),
                          !.doc.expirySet = TRUE,
                          !.dirty = @ \cup {"expiryDate"}]
           ELSE m
      b == IF a.doc.status = "available" /\ now >= a.doc.expiryDate
           THEN [a EXCEPT !.doc.status = "expired", !.dirty = @ \cup {"status"}]
           ELSE a
  IN IF b.doc.currentLocation.entityId = NoVal
     THEN [b EXCEPT !.doc.currentLocation =
                        [entityId |-> b.doc.centerId, entityType |-> "Center",
                         updatedAt |-> "date"],
                    !.dirty = @ \cup {"currentLocation"}]
     ELSE b

\* bloodDonationSchema.pre('save'): derive the expiry date and the initial
\* current location when they are not set.
PreSave(m) ==
  LET a == IF ~m.doc.expirySet
           THEN [m EXCEPT !.doc.expiryDate = ExpiryFrom(m.doc.donationDate),
                          !.doc.expirySet = TRUE,
                          !.dirty = @ \cup {"expiryDate"}]
           ELSE m
  IN IF a.doc.currentLocation.entityId = NoVal
     THEN [a EXCEPT !.doc.currentLocation =
                        [entityId |-> a.doc.centerId, entityType |-> "Center",
                         updatedAt |-> "date"],
                    !.dirty = @ \cup {"currentLocation"}]
     ELSE a

\* bloodDonationSchema.methods.isValid
isValid(d) == d.status = "available" /\ now < d.expiryDate

\* transferTo replacing the history by the new entry.
transferTo_Resets(m, toEntityId, toEntityType) ==
  [ m EXCEPT !.doc.transferHistory =
                 << [ fromId |-> m.doc.currentLocation.entityId,
                      fromType |-> m.doc.currentLocation.entityType,
                      toId |-> toEntityId, toType |-> toEntityType ] >>,
             !.pushed = 1,
             !.doc.currentLocation =
                 [entityId |-> toEntityId, entityType |-> toEntityType,
                  updatedAt |-> "date"],
             !.dirty = @ \cup {"currentLocation", "transferHistory"} ]

\* transferTo taking the collecting center for the holder it moves from.
transferTo_FromCenter(m, toEntityId, toEntityType) ==
  [ m EXCEPT !.doc.transferHistory =
                 Append(@, [ fromId |-> m.doc.centerId,
                             fromType |-> "Center",
                             toId |-> toEntityId, toType |-> toEntityType ]),
             !.pushed = @ + 1,
             !.doc.currentLocation =
                 [entityId |-> toEntityId, entityType |-> toEntityType,
                  updatedAt |-> "date"],
             !.dirty = @ \cup {"currentLocation"} ]

\* bloodDonationSchema.methods.transferTo, up to its save: the entry pushed
\* on the history and the new current location, on the in-memory document.
transferTo(m, toEntityId, toEntityType) ==
  [ m EXCEPT !.doc.transferHistory =
                 Append(@, [ fromId |-> m.doc.currentLocation.entityId,
                             fromType |-> m.doc.currentLocation.entityType,
                             toId |-> toEntityId, toType |-> toEntityType ]),
             !.pushed = @ + 1,
             !.doc.currentLocation =
                 [entityId |-> toEntityId, entityType |-> toEntityType,
                  updatedAt |-> "date"],
             !.dirty = @ \cup {"currentLocation"} ]

\* The entries pushed on the in-memory transferHistory since the last save.
PushedTail(m) ==
  SubSeq(m.doc.transferHistory, Len(m.doc.transferHistory) - m.pushed + 1,
         Len(m.doc.transferHistory))

\* A save that appends the pushed entries and leaves the location as stored.
Save_KeepsLocation(stored, m) ==
  LET h == PreSave(m)
  IN [ stored EXCEPT
         !.status = IF "status" \in h.dirty THEN h.doc.status ELSE @,
         !.expiryDate = IF "expiryDate" \in h.dirty THEN h.doc.expiryDate ELSE @,
         !.expirySet = IF "expiryDate" \in h.dirty THEN h.doc.expirySet ELSE @,
         !.transferHistory = @ \o PushedTail(h) ]

\* document.save() of a document that was read from the collection: the
\* pre-save hook runs, then one update sets the assigned paths and appends
\* the pushed entries to the stored array (an array assigned as a whole is
\* set as a whole).
Save(stored, m) ==
  LET h == PreSave(m)
  IN [ stored EXCEPT
         !.status = IF "status" \in h.dirty THEN h.doc.status ELSE @,
         !.expiryDate = IF "expiryDate" \in h.dirty THEN h.doc.expiryDate ELSE @,
         !.expirySet = IF "expiryDate" \in h.dirty THEN h.doc.expirySet ELSE @,
         !.currentLocation =
             IF "currentLocation" \in h.dirty THEN h.doc.currentLocation ELSE @,
         !.transferHistory = IF "transferHistory" \in h.dirty
                             THEN h.doc.transferHistory
                             ELSE @ \o PushedTail(h) ]

\* The in-memory document after its save.
Saved(m) == Tracked(PreSave(m).doc)

\* The unit looked up for its NGO or for the entity that holds it.
FindDonation_ByHolder(id, ngo) ==
  /\ id \in 1..Len(units)
  /\ (units[id].ngoId = ngo \/ units[id].currentLocation.entityId = ngo)

\* BloodDonation.findOne({_id: id, ngoId: ngo}): whether a document matches.
FindDonation(id, ngo) == id \in 1..Len(units) /\ units[id].ngoId = ngo

\* The center looked up by its id alone.
FindCenter_AnyOwner(centerId, ngo) == centerId \in Centers

\* Center.findOne({_id: centerId, ngoId: ngo}): whether a document matches.
FindCenter(centerId, ngo) == centerId \in Centers /\ CenterOwner[centerId] = ngo

\* The status check letting a unit still in processing through.
TransferAllowed_Processing(d) == d.status \in {"available", "processing"}

\* transferBloodUnit's check of the status read: donation.status === 'available'
TransferAllowed(d) == d.status = "available"

\* The test for the second save comparing with the wrong kind.
AssignsOnTransfer_Center(toEntityType) == toEntityType = "Center"

\* transferBloodUnit's test for the second save: toEntityType === 'Hospital'
AssignsOnTransfer(toEntityType) == toEntityType = "Hospital"

\* --------------------------------------------------------- Center documents
InventoryEntry(g, total, available) ==
  [bloodGroup |-> g, units |-> total, availableUnits |-> available]

\* countDocuments({centerId, bloodGroup, currentLocation: {entityId: centerId}})
totalCount(c, g) ==
  Cardinality({ u \in 1..Len(units) :
      /\ units[u].centerId = c
      /\ units[u].bloodGroup = g
      /\ SubdocEquals(units[u].currentLocation, [entityId |-> c]) })

\* countDocuments({centerId, bloodGroup, status: 'available',
\*                 expiryDate: {$gt: now}, currentLocation: {entityId: centerId}})
availableCount(c, g) ==
  Cardinality({ u \in 1..Len(units) :
      /\ units[u].centerId = c
      /\ units[u].bloodGroup = g
      /\ units[u].status = "available"
      /\ units[u].expiryDate > now
      /\ SubdocEquals(units[u].currentLocation, [entityId |-> c]) })

\* The counts updateBloodInventory reads, one pair per blood group.
InventoryCounts(c) ==
  [ g \in GroupSet |-> [units |-> totalCount(c, g), availableUnits |-> availableCount(c, g)] ]

\* The lookup that never finds the entry of a group.
FindEntry_Never(inv, g) == 0

\* this.bloodInventory.find(item => item.bloodGroup === g): index of the
\* first entry of the group, 0 when there is none.
FindEntry(inv, g) ==
  IF \E i \in 1..Len(inv) : inv[i].bloodGroup = g
  THEN CHOOSE i \in 1..Len(inv) :
         inv[i].bloodGroup = g /\ \A j \in 1..(i - 1) : inv[j].bloodGroup # g
  ELSE 0

\* Entries updateBloodInventory pushes: the groups the in-memory document has
\* no entry for, in the order of the bloodGroups array.
RECURSIVE PushedEntries(_, _, _)
PushedEntries(inv, counts, k) ==
  IF k > Len(BloodGroups) THEN << >>
  ELSE LET g == BloodGroups[k]
           rest == PushedEntries(inv, counts, k + 1)
       IN IF FindEntry(inv, g) = 0
          THEN <<InventoryEntry(g, counts[g].units, counts[g].availableUnits)>> \o rest
          ELSE rest

\* Entries updateBloodInventory assigns in place: [index -> new entry].
SetEntries(inv, counts) ==
  [ i \in { FindEntry(inv, g) : g \in GroupSet } \ {0} |->
      InventoryEntry(inv[i].bloodGroup, counts[inv[i].bloodGroup].units,
                     counts[inv[i].bloodGroup].availableUnits) ]

\* An update that assigns array elements by index carries the version the
\* document was read at; an update that only pushes does not.
VersionConflict(stored, mem, counts) ==
  /\ DOMAIN SetEntries(mem.bloodInventory, counts) # {}
  /\ stored.v # mem.v

\* this.save() at the end of updateBloodInventory, on the stored document.
SaveInventory(stored, mem, counts) ==
  LET sets == SetEntries(mem.bloodInventory, counts)
      pushed == PushedEntries(mem.bloodInventory, counts, 1)
  IN [ stored EXCEPT
         !.bloodInventory =
             [ i \in 1..Len(stored.bloodInventory) |->
                 IF i \in DOMAIN sets THEN sets[i] ELSE stored.bloodInventory[i] ] \o pushed,
         !.v = IF pushed # << >> THEN @ + 1 ELSE @ ]

\* -------------------------------------------------------------------- Init
NewCenter ==
  [ bloodInventory |-> << >>, v |-> 0,
    statistics |-> [ totalDonations |-> 0,
                     totalDonors |-> [defined |-> TRUE, value |-> 0],
                     lastDonationDate |-> NoVal ] ]

NewNGO == [ totalDonationsCollected |-> 0, totalHospitalsServed |-> 0 ]

NewRequest(hospitalId, ngoId, bloodGroups) ==
  [ hospitalId |-> hospitalId, ngoId |-> ngoId, bloodGroups |-> bloodGroups,
    status |-> "Pending",
    deliveryDetails |-> [ actualDeliveryTime |-> NoVal, receivedBy |-> NoVal,
                          confirmationCode |-> NoVal ] ]

\* BloodRequest collections the request handlers lead to, which the unit
\* handlers start from: no request, or one request of hospital h1, to the NGO
\* that registers the units in one of three statuses or, still Pending, to
\* the other NGO.
InitialRequests ==
  { << >> } \cup
  { << [ NewRequest("h1", "n1", << [bloodGroup |-> "A+", units |-> 1] >>)
           EXCEPT !.status = st ] >> : st \in {"Pending", "Accepted", "Delivered"} }
  \cup { << NewRequest("h1", "n2", << [bloodGroup |-> "A+", units |-> 1] >>) >> }

Start0 ==
  /\ now = 0
  /\ units = << >>
  /\ centers = [c \in Centers |-> NewCenter]
  /\ ngos = [n \in NGOs |-> NewNGO]
  /\ requests \in InitialRequests
  /\ pc = [p \in Procs |-> "idle"]
  /\ call = [p \in Procs |-> NoCall]
  /\ local = [p \in Procs |-> NoLocal]
  /\ event = NoCall
  /\ started = 0
  /\ overlapped = FALSE

\* Runs of overlapping handlers; the answers are not kept.
Init == Start0 /\ serial = FALSE

\* Runs of one handler at a time, the answer of the last call kept in event.
SerialInit == Start0 /\ serial = TRUE

\* ------------------------------------------------------------ handler steps
Idle(p) == pc[p] = "idle"

\* Another process is in the middle of a handler.
Busy(p) == \E q \in Procs \ {p} : ~Idle(q)

\* A call can be taken up: in a serial run only when no handler is under way.
Ready(p) == Idle(p) /\ (serial => ~Busy(p))

\* The handler goes on to its next step; nothing is answered yet.
Goto(p, step) ==
  /\ pc' = [pc EXCEPT ![p] = step]
  /\ event' = NoCall
  /\ UNCHANGED <<started, overlapped, serial>>

\* The handler takes up call c and goes on to its next step.  A run in which
\* calls overlap is followed for MaxCalls calls; a run in which no call
\* overlaps another is followed without limit.
Start(p, c, step) ==
  /\ (Busy(p) \/ overlapped) => started < MaxCalls
  /\ started' = IF started < MaxCalls THEN started + 1 ELSE started
  /\ overlapped' = (overlapped \/ Busy(p))
  /\ UNCHANGED serial
  /\ call' = [call EXCEPT ![p] = c]
  /\ pc' = [pc EXCEPT ![p] = step]
  /\ event' = NoCall

\* The handler answers its call: the process is free again.
Finish(p, r) ==
  /\ event' = IF serial THEN [call[p] EXCEPT !.resp = r] ELSE NoCall
  /\ call' = [call EXCEPT ![p] = NoCall]
  /\ pc' = [pc EXCEPT ![p] = "idle"]
  /\ local' = [local EXCEPT ![p] = NoLocal]
  /\ UNCHANGED <<started, overlapped, serial>>

\* The handler answers call c at the step that takes it up.
Answer(p, c, r) ==
  /\ event' = IF serial THEN [c EXCEPT !.resp = r] ELSE NoCall
  /\ UNCHANGED <<call, pc, local, started, overlapped, serial>>

\* Documents being inserted by handlers that have not saved yet.
PendingInserts == Cardinality({ q \in Procs : pc[q] = "reg_save" })

\* Transfers of unit u that passed the status check and have not saved yet.
PendingTransfers(u) ==
  Cardinality({ q \in Procs : pc[q] = "tr_save" /\ call[q].unitId = u })

\* Completions by NGO n that have not counted the served hospital yet.
PendingServed(n) ==
  Cardinality({ q \in Procs : pc[q] \in {"rs_save", "rs_ngo", "rs_ngo_save"}
                              /\ call[q].caller = n /\ call[q].status = "Completed" })

\* ---------------------------------------------------- registerBloodDonation
\* Validation of the body and Center.findOne({_id: centerId, ngoId}).
registerBloodDonation(p) ==
  /\ Ready(p)
  /\ \E in \in RegisterInputs :
       LET c == [ NoCall EXCEPT !.op = "Register", !.caller = in.caller,
                    !.userId = in.userId, !.centerId = in.centerId,
                    !.bloodGroup = in.bloodGroup, !.dateGiven = in.dateGiven,
                    !.dateValue = IF in.dateGiven THEN now - in.daysAgo ELSE 0 ]
       IN IF c.userId = NoVal \/ c.centerId = NoVal \/ c.bloodGroup = NoVal
          THEN Answer(p, c, E400)
          ELSE IF ~FindCenter(c.centerId, c.caller)
          THEN Answer(p, c, E404)
          ELSE /\ Len(units) + PendingInserts < MaxUnits
               /\ Start(p, c, "reg_save")
               /\ local' = [local EXCEPT ![p].center = centers[c.centerId],
                                         ![p].held = c.centerId]
  /\ UNCHANGED <<now, units, centers, ngos, requests>>

\* bloodDonation.save(): schema validation, the pre-save hook, the insert.
registerSave(p) ==
  /\ pc[p] = "reg_save"
  /\ LET a == call[p]
         d == NewDonation(a.caller, a.userId, a.centerId, a.bloodGroup,
                          IF a.dateGiven THEN a.dateValue ELSE now)
     IN IF a.bloodGroup \notin GroupSet
        THEN /\ Finish(p, E500)
             /\ UNCHANGED units
        ELSE /\ units' = Append(units, PreSave(Tracked(d)).doc)
             /\ Goto(p, "reg_stats")
             /\ UNCHANGED <<call, local>>
  /\ UNCHANGED <<now, centers, ngos, requests>>

\* center.save() after the statistics were assigned on the in-memory center.
\* BloodDonation.distinct(...).length is the length of a query object, which
\* is undefined: totalDonors loses its value.
registerStatistics(p) ==
  /\ pc[p] = "reg_stats"
  /\ LET c == local[p].held
         mem == local[p].center
     IN centers' = [centers EXCEPT ![c].statistics =
                      [ totalDonations |-> mem.statistics.totalDonations + 1,
                        totalDonors |-> [defined |-> FALSE, value |-> 0],
                        lastDonationDate |-> "date" ]]
  /\ Goto(p, "reg_inv")
  /\ UNCHANGED <<now, units, ngos, requests, call, local>>

\* NGO.findById(req.ngo._id)
registerNgoRead(p) ==
  /\ pc[p] = "reg_ngo"
  /\ local' = [local EXCEPT ![p].ngo = ngos[call[p].caller]]
  /\ Goto(p, "reg_ngo_save")
  /\ UNCHANGED <<now, units, centers, ngos, requests, call>>

\* ngo.statistics.totalDonationsCollected += 1; ngo.save()
registerNgoSave(p) ==
  /\ pc[p] = "reg_ngo_save"
  /\ ngos' = [ngos EXCEPT ![call[p].caller].totalDonationsCollected =
                local[p].ngo.totalDonationsCollected + 1]
  /\ Finish(p, OK)
  /\ UNCHANGED <<now, units, centers, requests>>

\* ------------------------------------------------ updateBloodDonationStatus
\* Validation of the body and BloodDonation.findOne({_id, ngoId}).
updateBloodDonationStatus(p) ==
  /\ Ready(p)
  /\ \E in \in StatusInputs :
       LET c == [ NoCall EXCEPT !.op = "SetStatus", !.caller = in.caller,
                                !.unitId = in.unitId, !.status = in.status ]
           ngo == in.caller
           u == in.unitId
           st == in.status
       IN IF st = NoVal \/ st \notin validStatuses
          THEN Answer(p, c, E400)
          ELSE IF ~FindDonation(u, ngo)
          THEN Answer(p, c, E404)
          ELSE /\ Start(p, c, "st_save")
               /\ local' = [local EXCEPT ![p].unit = Tracked(units[u])]
  /\ UNCHANGED <<now, units, centers, ngos, requests>>

\* donation.status = status; donation.save()
statusSave(p) ==
  /\ pc[p] = "st_save"
  /\ LET u == call[p].unitId
         mem == AssignStatus(local[p].unit, call[p].status)
     IN /\ units' = [units EXCEPT ![u] = Save(@, mem)]
        /\ local' = [local EXCEPT ![p].unit = Saved(mem)]
  /\ Goto(p, "st_inv")
  /\ UNCHANGED <<now, centers, ngos, requests, call>>

\* -------------------------------------------------------- transferBloodUnit
\* Validation of the body, BloodDonation.findOne({_id, ngoId}) and the check
\* of the status read.
transferBloodUnit(p) ==
  /\ Ready(p)
  /\ \E in \in TransferInputs :
       LET c == [ NoCall EXCEPT !.op = "Transfer", !.caller = in.caller,
                    !.unitId = in.unitId, !.toEntityId = in.dest.id,
                    !.toEntityType = in.dest.type, !.requestId = in.requestId ]
           u == in.unitId
       IN IF c.toEntityId = NoVal \/ c.toEntityType = NoVal
          THEN Answer(p, c, E400)
          ELSE IF c.toEntityType \notin validEntityTypes
          THEN Answer(p, c, E400)
          ELSE IF ~FindDonation(u, c.caller)
          THEN Answer(p, c, E404)
          ELSE IF ~TransferAllowed(units[u])
          THEN Answer(p, c, E400State)
          ELSE /\ Len(units[u].transferHistory) + PendingTransfers(u) < MaxLedger
               /\ Start(p, c, "tr_save")
               /\ local' = [local EXCEPT ![p].unit = Tracked(units[u])]
  /\ UNCHANGED <<now, units, centers, ngos, requests>>

\* donation.transferTo(toEntityId, toEntityType, reason)
transferSave(p) ==
  /\ pc[p] = "tr_save"
  /\ LET u == call[p].unitId
         mem == transferTo(local[p].unit, call[p].toEntityId, call[p].toEntityType)
     IN /\ units' = [units EXCEPT ![u] = Save(@, mem)]
        /\ local' = [local EXCEPT ![p].unit = Saved(mem)]
  /\ Goto(p, IF AssignsOnTransfer(call[p].toEntityType) THEN "tr_assign" ELSE "tr_src")
  /\ UNCHANGED <<now, centers, ngos, requests, call>>

\* donation.status = 'assigned'; donation.save()
transferAssign(p) ==
  /\ pc[p] = "tr_assign"
  /\ LET u == call[p].unitId
         mem == AssignStatus(local[p].unit, "assigned")
     IN /\ units' = [units EXCEPT ![u] = Save(@, mem)]
        /\ local' = [local EXCEPT ![p].unit = Saved(mem)]
  /\ Goto(p, IF call[p].requestId # 0 THEN "tr_req" ELSE "tr_src")
  /\ UNCHANGED <<now, centers, ngos, requests, call>>

\* The status test that takes Pending alone.
BindsRequest_PendingOnly(st) == st = "Pending"

\* The status test that takes Accepted alone.
BindsRequest_AcceptedOnly(st) == st = "Accepted"

\* transferBloodUnit's test of the request read:
\* ['Pending', 'Accepted'].includes(request.status)
BindsRequest(st) == st \in {"Pending", "Accepted"}

\* BloodRequest.findById(requestId) and the check of the status read.
transferRequestRead(p) ==
  /\ pc[p] = "tr_req"
  /\ LET r == call[p].requestId
     IN IF r <= Len(requests) /\ BindsRequest(requests[r].status)
        THEN /\ local' = [local EXCEPT ![p].req = requests[r]]
             /\ Goto(p, "tr_req_save")
        ELSE /\ Goto(p, "tr_src")
             /\ UNCHANGED local
  /\ UNCHANGED <<now, units, centers, ngos, requests, call>>

\* request.status = 'Processing'; request.save()
transferRequestSave(p) ==
  /\ pc[p] = "tr_req_save"
  /\ requests' = [requests EXCEPT ![call[p].requestId].status = "Processing"]
  /\ Goto(p, "tr_src")
  /\ UNCHANGED <<now, units, centers, ngos, call, local>>

\* An awaited database operation of transferBloodUnit rejects: the operation
\* writes nothing, the error leaves the handler and the call is answered with
\* the error; what earlier operations of the call saved stays saved.
transferFails(p) ==
  /\ call[p].op = "Transfer"
  /\ pc[p] \in {"tr_save", "tr_assign", "tr_req", "tr_req_save",
                 "tr_src", "tr_src_save", "tr_dst", "tr_dst_save"}
  /\ Finish(p, E500)
  /\ UNCHANGED <<now, units, centers, ngos, requests>>

\* ----------------------------------------------------- updateBloodInventory
\* The center a handler recomputes at its step, and whether it was read anew
\* (Center.findById) or is the document the handler read at its start.
InventoryCenter(p) ==
  CASE pc[p] = "reg_inv" -> local[p].held
    [] pc[p] = "st_inv" -> local[p].unit.doc.centerId
    [] pc[p] = "tr_src" -> local[p].unit.doc.centerId
    [] pc[p] = "tr_dst" -> call[p].toEntityId

\* Center.findById(...) where the handler reads the center anew, and the
\* countDocuments queries of updateBloodInventory.  A destination that is no
\* center is skipped.
updateBloodInventory(p) ==
  /\ pc[p] \in {"reg_inv", "st_inv", "tr_src", "tr_dst"}
  /\ LET c == InventoryCenter(p)
     IN IF c \notin Centers
        THEN /\ Finish(p, OK)
        ELSE /\ local' = [local EXCEPT
                   ![p].center = IF pc[p] = "reg_inv" THEN local[p].center ELSE centers[c],
                   ![p].counts = InventoryCounts(c),
                   ![p].held = c]
             /\ Goto(p, pc[p] \o "_save")
             /\ UNCHANGED call
  /\ UNCHANGED <<now, units, centers, ngos, requests>>

\* this.save() of updateBloodInventory: a version conflict fails the handler.
inventorySave(p) ==
  /\ pc[p] \in {"reg_inv_save", "st_inv_save", "tr_src_save", "tr_dst_save"}
  /\ LET c == local[p].held
     IN IF VersionConflict(centers[c], local[p].center, local[p].counts)
        THEN /\ Finish(p, E500)
             /\ UNCHANGED centers
        ELSE /\ centers' = [centers EXCEPT
                   ![c] = SaveInventory(@, local[p].center, local[p].counts)]
             /\ CASE pc[p] = "reg_inv_save" ->
                       Goto(p, "reg_ngo") /\ UNCHANGED <<call, local>>
                  [] pc[p] = "tr_src_save" /\ call[p].toEntityType = "Center" ->
                       Goto(p, "tr_dst") /\ UNCHANGED <<call, local>>
                  [] OTHER -> Finish(p, OK)
  /\ UNCHANGED <<now, units, ngos, requests>>

\* ------------------------------------------------------- createBloodRequest
\* bloodGroups arrays offered to createBloodRequest: empty, well-formed, with
\* an entry without a blood group, with an entry without a unit count (units
\* 0 stands for a count that is absent or 0), with a group outside the schema.
GroupLists ==
  { << >>,
    << [bloodGroup |-> "A+", units |-> 1] >>,
    << [bloodGroup |-> "A+", units |-> 1], [bloodGroup |-> NoVal, units |-> 1] >>,
    << [bloodGroup |-> "O-", units |-> 0] >>,
    << [bloodGroup |-> BadGroup, units |-> 1] >> }

\* The check of one entry that tests the blood group alone.
LacksField_GroupOnly(item) == item.bloodGroup = NoVal

\* createBloodRequest's check of one entry: !item.bloodGroup || !item.units
LacksField(item) == item.bloodGroup = NoVal \/ item.units = 0

\* Validation, then BloodRequest.create({...}) with the schema's validation.

createBloodRequest(p) ==
  /\ Ready(p)
  /\ \E h \in Hospitals, ngo \in NGOs \cup {NoVal}, given \in BOOLEAN, gl \in GroupLists :
       LET c == [ NoCall EXCEPT !.op = "Create", !.caller = h, !.ngoId = ngo,
                    !.groupsGiven = given, !.bloodGroups = IF given THEN gl ELSE << >> ]
       IN /\ given \/ gl = << >>
          /\ IF ngo = NoVal \/ ~given \/ Len(c.bloodGroups) = 0
             THEN Answer(p, c, E400) /\ UNCHANGED requests
             ELSE IF \E i \in 1..Len(c.bloodGroups) : LacksField(c.bloodGroups[i])
             THEN Answer(p, c, E400) /\ UNCHANGED requests
             ELSE IF \E i \in 1..Len(c.bloodGroups) :
                       c.bloodGroups[i].bloodGroup \notin GroupSet \/ c.bloodGroups[i].units < 1
             THEN Answer(p, c, E500) /\ UNCHANGED requests
             ELSE /\ Len(requests) < MaxRequests
                  /\ requests' = Append(requests, NewRequest(h, ngo, c.bloodGroups))
                  /\ Answer(p, [c EXCEPT !.requestId = Len(requests) + 1], OK)
  /\ UNCHANGED <<now, units, centers, ngos>>

\* ------------------------------------------------- updateBloodRequestStatus
\* The lookup by _id alone.
FindRequest_AnyNgo(r, ngo) == r <= Len(requests)

\* BloodRequest.findOne({ _id: requestId, ngoId }) finds a request.
FindRequest(r, ngo) == r <= Len(requests) /\ requests[r].ngoId = ngo

\* Validation of the body and BloodRequest.findOne({_id, ngoId}).
updateBloodRequestStatus(p) ==
  /\ Ready(p)
  /\ \E ngo \in NGOs, r \in RequestIds, st \in validRequestStatuses \cup {BadStatus, NoVal} :
       LET c == [ NoCall EXCEPT !.op = "AdvanceStatus", !.caller = ngo,
                                !.requestId = r, !.status = st ]
       IN IF st = NoVal \/ st \notin validRequestStatuses
          THEN Answer(p, c, E400)
          ELSE IF ~FindRequest(r, ngo)
          THEN Answer(p, c, E404)
          ELSE /\ st = "Completed" => ngos[ngo].totalHospitalsServed + PendingServed(ngo) < MaxServed
               /\ Start(p, c, "rs_save")
               /\ local' = [local EXCEPT ![p].req = requests[r]]
  /\ UNCHANGED <<now, units, centers, ngos, requests>>

\* The test that also takes Delivered.
CountsServed_Delivered(st) == st \in {"Delivered", "Completed"}

\* updateBloodRequestStatus's test before the NGO's statistics are updated:
\* status === 'Completed'
CountsServed(st) == st = "Completed"

\* request.status = status; the delivery time when Delivered; request.save()
requestStatusSave(p) ==
  /\ pc[p] = "rs_save"
  /\ LET r == call[p].requestId
         read == local[p].req
         st == call[p].status
     IN requests' = [requests EXCEPT
          ![r].status = IF st # read.status THEN st ELSE @,
          ![r].deliveryDetails =
              IF st = "Delivered"
              THEN [ read.deliveryDetails EXCEPT !.actualDeliveryTime = "date" ]
              ELSE @ ]
  /\ IF CountsServed(call[p].status)
     THEN Goto(p, "rs_ngo") /\ UNCHANGED <<call, local>>
     ELSE Finish(p, OK)
  /\ UNCHANGED <<now, units, centers, ngos>>

\* NGO.findById(ngoId)
requestNgoRead(p) ==
  /\ pc[p] = "rs_ngo"
  /\ local' = [local EXCEPT ![p].ngo = ngos[call[p].caller]]
  /\ Goto(p, "rs_ngo_save")
  /\ UNCHANGED <<now, units, centers, ngos, requests, call>>

\* ngo.statistics.totalHospitalsServed += 1; ngo.save()
requestNgoSave(p) ==
  /\ pc[p] = "rs_ngo_save"
  /\ ngos' = [ngos EXCEPT ![call[p].caller].totalHospitalsServed =
                local[p].ngo.totalHospitalsServed + 1]
  /\ Finish(p, OK)
  /\ UNCHANGED <<now, units, centers, requests>>

\* ----------------------------------------------------- confirmBloodDelivery
\* Math.random().toString(36).substring(2, 8).toUpperCase()
GeneratedCode == "generated"

\* The request looked up for its hospital whatever its status.
FindEnRoute_AnyStatus(r, h) == r \in 1..Len(requests) /\ requests[r].hospitalId = h

\* BloodRequest.findOne({_id: r, hospitalId: h, status: 'En Route'}): whether
\* a document matches.
FindEnRoute(r, h) ==
  /\ r \in 1..Len(requests)
  /\ requests[r].hospitalId = h
  /\ requests[r].status = "En Route"

\* Validation of the body and the lookup of the request.
confirmBloodDelivery(p) ==
  /\ Ready(p)
  /\ \E h \in Hospitals, r \in RequestIds, by \in {"r1", NoVal}, code \in {"code", NoVal} :
       LET c == [ NoCall EXCEPT !.op = "ConfirmDelivery", !.caller = h, !.requestId = r,
                                !.receivedBy = by, !.confirmationCode = code ]
       IN IF by = NoVal
          THEN Answer(p, c, E400)
          ELSE IF ~FindEnRoute(r, h)
          THEN Answer(p, c, E404)
          ELSE /\ Start(p, c, "cd_save")
               /\ local' = [local EXCEPT ![p].req = requests[r]]
  /\ UNCHANGED <<now, units, centers, ngos, requests>>

\* request.status = 'Delivered'; the delivery details; request.save()
confirmSave(p) ==
  /\ pc[p] = "cd_save"
  /\ requests' = [requests EXCEPT
       ![call[p].requestId].status = "Delivered",
       ![call[p].requestId].deliveryDetails =
           [ local[p].req.deliveryDetails EXCEPT
               !.actualDeliveryTime = "date",
               !.receivedBy = call[p].receivedBy,
               !.confirmationCode = IF call[p].confirmationCode # NoVal
                                    THEN call[p].confirmationCode ELSE GeneratedCode ] ]
  /\ Finish(p, OK)
  /\ UNCHANGED <<now, units, centers, ngos>>

\* ------------------------------------------------- getExpiringBloodDonations
\* The days parameter of the query string: absent, or a decimal numeral.
DaysGiven == {NoVal, "1", "7"}

\* parseInt(days) of the numerals offered.
parseInt(d) == CASE d = "1" -> 1 [] d = "7" -> 7

\* const { days = 7 } = req.query; parseInt(days)
DaysOf(d) == IF d = NoVal THEN 7 ELSE parseInt(d)

\* The window without its lower end.
InExpiryWindow_NoLower(d, days) == d.expiryDate <= now + days

\* expiryDate: { $gte: today, $lte: expiryLimit } with expiryLimit the date
\* `days` days after today.
InExpiryWindow(d, days) == now <= d.expiryDate /\ d.expiryDate <= now + days

\* The orders in which a sort by key may return the elements of S: elements
\* with equal keys come in any order.
Orderings(S, key) ==
  { s \in [1..Cardinality(S) -> S] :
      \A i, j \in 1..Cardinality(S) :
        i < j => s[i] # s[j] /\ key[s[i]] <= key[s[j]] }

\* BloodDonation.find({ngoId, status: 'available', expiryDate: {...}})
\*   .sort({ expiryDate: 1 })
getExpiringBloodDonations(p) ==
  /\ Ready(p)
  /\ \E ngo \in NGOs, d \in DaysGiven :
       LET matched == { u \in 1..Len(units) :
                          /\ units[u].ngoId = ngo
                          /\ units[u].status = "available"
                          /\ InExpiryWindow(units[u], DaysOf(d)) }
       IN \E res \in Orderings(matched, [u \in matched |-> units[u].expiryDate]) :
            Answer(p, [ NoCall EXCEPT !.op = "ListExpiring", !.caller = ngo,
                                      !.days = d, !.found = res ], OK)
  /\ UNCHANGED <<now, units, centers, ngos, requests>>

\* ------------------------------------------------------ getNGOBloodInventory
\* BloodDonation.find({centerId: center._id,
\*                     currentLocation: {entityId: center._id}})
CenterDonations(c) ==
  { u \in 1..Len(units) :
      /\ units[u].centerId = c
      /\ SubdocEquals(units[u].currentLocation, [entityId |-> c]) }

\* The counts of one center: total += 1 for every donation found and
\* available += 1 for those whose status is 'available'.
centerInventory(c) ==
  [ g \in GroupSet |->
      [ total |-> Cardinality({ u \in CenterDonations(c) : units[u].bloodGroup = g }),
        available |-> Cardinality({ u \in CenterDonations(c) :
                                      /\ units[u].bloodGroup = g
                                      /\ units[u].status = "available" }) ] ]

\* Math.floor((expiryDate - today) / day)
daysToExpiry(d) == d.expiryDate - now

\* The donations pushed on inventory.expiringSoon.
ExpiringSoon(ngo) ==
  { u \in UNION { CenterDonations(c) : c \in { x \in Centers : CenterOwner[x] = ngo } } :
      /\ units[u].status = "available"
      /\ daysToExpiry(units[u]) <= 7
      /\ daysToExpiry(units[u]) >= 0 }

\* Center.find({ngoId}), the donations of each center counted by blood
\* group, and the expiring-soon list sorted by the days remaining.
getNGOBloodInventory(p) ==
  /\ Ready(p)
  /\ \E ngo \in NGOs :
       LET byCenter == { [centerId |-> c, bloodGroup |-> g,
                          total |-> centerInventory(c)[g].total,
                          available |-> centerInventory(c)[g].available] :
                         c \in { x \in Centers : CenterOwner[x] = ngo }, g \in GroupSet }
       IN \E soon \in Orderings(ExpiringSoon(ngo),
                                [u \in ExpiringSoon(ngo) |-> daysToExpiry(units[u])]) :
            Answer(p, [ NoCall EXCEPT !.op = "Inventory", !.caller = ngo,
                                      !.inventory = byCenter, !.found = soon ], OK)
  /\ UNCHANGED <<now, units, centers, ngos, requests>>

\* ------------------------------------------------------------------- clock
Tick ==
  /\ now < MaxTime
  /\ now' = now + 1
  /\ event' = NoCall
  /\ UNCHANGED <<units, centers, ngos, requests, pc, call, local, started, overlapped, serial>>

\* ----------------------------------------------------------- specification
\* The handlers of the blood-unit routes and of the transfer route.
UnitStep(p) ==
  \/ registerBloodDonation(p)
  \/ registerSave(p)
  \/ registerStatistics(p)
  \/ registerNgoRead(p)
  \/ registerNgoSave(p)
  \/ updateBloodDonationStatus(p)
  \/ statusSave(p)
  \/ transferBloodUnit(p)
  \/ transferSave(p)
  \/ transferAssign(p)
  \/ transferRequestRead(p)
  \/ transferRequestSave(p)
  \/ updateBloodInventory(p)
  \/ inventorySave(p)

\* The handlers of the blood-request routes.
RequestStep(p) ==
  \/ createBloodRequest(p)
  \/ updateBloodRequestStatus(p)
  \/ requestStatusSave(p)
  \/ requestNgoRead(p)
  \/ requestNgoSave(p)
  \/ confirmBloodDelivery(p)
  \/ confirmSave(p)

Next == Tick \/ \E p \in Procs : UnitStep(p)

\* The blood-unit handlers of any number of clients, their steps interleaved.
Spec == Init /\ [][Next]_vars

\* One handler at a time: a call is taken up only when no other is under way.
SerialSpec == SerialInit /\ [][Next]_vars

\* The blood-request handlers, one at a time.
\* The unit handlers when a database operation of a Transfer may fail.
FaultNext == Next \/ \E p \in Procs : transferFails(p)

FaultSpec == SerialInit /\ [][FaultNext]_vars

\* Expiry dates of the units the read handlers are applied to, as days from
\* the start: before it, on it, inside, at the end of and past a week.
QueryExpiries == {0 - 1, 0, 1, 7, 8}

\* A unit as registered by the NGO of the center and given status st.
StoredUnit(c, expiry, st) ==
  AssignStatus(Tracked(PreSave(Tracked(
      NewDonation(CenterOwner[c], "d1", c, "A+", expiry - ExpiryDays))).doc), st).doc

\* Collections of up to MaxStored units registered at the centers.
StoredCollections ==
  UNION { [1..n -> { StoredUnit(c, e, st) :
                       c \in Centers, e \in QueryExpiries,
                       st \in {"available", "expired"} }] : n \in 0..MaxStored }

\* The state after the units were registered and given their status, one
\* call at a time: the statistics counted and the inventory of each center
\* that holds a unit recomputed.
QueryInit ==
  /\ now = 0
  /\ units \in StoredCollections
  /\ centers = [ c \in Centers |->
       LET n == Cardinality({ u \in 1..Len(units) : units[u].centerId = c })
       IN IF n = 0 THEN NewCenter
          ELSE [ SaveInventory(NewCenter, NewCenter, InventoryCounts(c)) EXCEPT
                   !.statistics = [ totalDonations |-> n,
                                    totalDonors |-> [defined |-> FALSE, value |-> 0],
                                    lastDonationDate |-> "date" ] ] ]
  /\ ngos = [ n \in NGOs |->
       [ NewNGO EXCEPT !.totalDonationsCollected =
           Cardinality({ u \in 1..Len(units) : units[u].ngoId = n }) ] ]
  /\ requests = << >>
  /\ pc = [p \in Procs |-> "idle"]
  /\ call = [p \in Procs |-> NoCall]
  /\ local = [p \in Procs |-> NoLocal]
  /\ event = NoCall
  /\ started = 0
  /\ overlapped = FALSE
  /\ serial = TRUE

\* The read handlers of the NGO routes.
QueryStep(p) ==
  \/ getExpiringBloodDonations(p)
  \/ getNGOBloodInventory(p)

QueryNext == Tick \/ \E p \in Procs : QueryStep(p)

QuerySpec == QueryInit /\ [][QueryNext]_vars

RequestNext == \E p \in Procs : RequestStep(p)

RequestSpec == SerialInit /\ [][RequestNext]_vars

\* ------------------------------------------------------------------ claims

\* C1: in every persisted state of a unit, also after transfers of the same
\* unit whose reads and saves interleave, a non-empty transfer history ends
\* with an entry whose (toId, toType) is the unit's current location.
C1_LastEntryIsHolder ==
  \A u \in DOMAIN units :
    LET d == units[u]
    IN Len(d.transferHistory) > 0 =>
         /\ Last(d.transferHistory).toId = d.currentLocation.entityId
         /\ Last(d.transferHistory).toType = d.currentLocation.entityType

\* Two transfers that read the unit at the same holder have both saved.
C1_Witness ==
  \E u \in DOMAIN units :
    /\ Len(units[u].transferHistory) = 2
    /\ units[u].transferHistory[1].fromId = units[u].transferHistory[2].fromId
    /\ units[u].transferHistory[1].toId # units[u].transferHistory[2].toId

\* C2: the transfer history is append-only: over every step of a sequence of
\* Register, SetStatus and Transfer calls the history before is a prefix of
\* the history after, no unit disappears, a new unit starts with an empty
\* history, and the history grows only at the save of a Transfer, by exactly
\* one entry, and that Transfer is answered with success.
C2_LedgerAppendOnly ==
  [][ /\ Len(units') >= Len(units)
      /\ \A u \in DOMAIN units :
           LET before == units[u].transferHistory
               after == units'[u].transferHistory
           IN /\ IsPrefix(before, after)
              /\ after # before =>
                   /\ Len(after) = Len(before) + 1
                   /\ \E p \in Procs : /\ pc[p] = "tr_save"
                                       /\ call[p].op = "Transfer"
                                       /\ call[p].unitId = u
      /\ \A u \in (Len(units) + 1)..Len(units') : units'[u].transferHistory = << >>
      /\ (event'.op = "Transfer" /\ event'.resp # OK) =>
           (units' = units /\ \A p \in Procs : Idle(p))
    ]_vars

\* A SetStatus was answered for a unit that had been transferred twice.
C2_Witness ==
  /\ event.op = "SetStatus"
  /\ event.resp = OK
  /\ \E u \in DOMAIN units : u = event.unitId /\ Len(units[u].transferHistory) = 2

\* C3: a Transfer by the owner of a unit, to a destination of a valid kind, is
\* answered with the invalid-state error whenever the status of the unit
\* before the call is not available, and a Transfer is taken up only for an
\* available unit; a rejected Transfer leaves every unit (status, location,
\* history) and every request as they were.
C3_RejectedTransfer ==
  [][ /\ (event'.op = "Transfer" /\ \A p \in Procs : Idle(p)) =>
           /\ ( /\ event'.toEntityId # NoVal
                /\ event'.toEntityType \in validEntityTypes
                /\ event'.unitId \in DOMAIN units
                /\ units[event'.unitId].ngoId = event'.caller
                /\ units[event'.unitId].status # "available" )
              => event'.resp = E400State
           /\ event'.resp # OK => (units' = units /\ requests' = requests)
      /\ \A p \in Procs :
           (Idle(p) /\ pc'[p] = "tr_save") =>
             units[call'[p].unitId].status = "available"
    ]_vars

\* A Transfer naming a request was rejected for a unit assigned to a hospital.
C3_Witness ==
  /\ event.op = "Transfer"
  /\ event.resp = E400State
  /\ event.requestId = 1
  /\ Len(requests) = 1
  /\ units[event.unitId].status = "assigned"

\* C4: after a successful Transfer the last entry of the history has
\* (toId, toType) equal to the destination of the call and to the unit's new
\* current location, and (fromId, fromType) equal to the current location
\* the unit had before the call.
C4_TransferEntry ==
  [][ /\ \A p \in Procs :
           (pc[p] = "tr_save" /\ pc'[p] # "tr_save") =>
             LET u == call[p].unitId
                 e == Last(units'[u].transferHistory)
             IN /\ e.toId = call[p].toEntityId
                /\ e.toType = call[p].toEntityType
                /\ units'[u].currentLocation.entityId = e.toId
                /\ units'[u].currentLocation.entityType = e.toType
                /\ e.fromId = units[u].currentLocation.entityId
                /\ e.fromType = units[u].currentLocation.entityType
      /\ (event'.op = "Transfer" /\ event'.resp = OK) =>
           LET d == units'[event'.unitId]
           IN /\ Last(d.transferHistory).toId = event'.toEntityId
              /\ Last(d.transferHistory).toType = event'.toEntityType
              /\ d.currentLocation.entityId = event'.toEntityId
              /\ d.currentLocation.entityType = event'.toEntityType
    ]_vars

\* A second Transfer of a unit, from the holder the first one gave it, succeeded.
C4_Witness ==
  /\ event.op = "Transfer"
  /\ event.resp = OK
  /\ Len(units[event.unitId].transferHistory) = 2
  /\ units[event.unitId].transferHistory[2].fromId # units[event.unitId].centerId

\* C5: after a successful Transfer whose destination kind is Hospital the
\* status of the unit is assigned.
C5_HospitalAssigned ==
  (event.op = "Transfer" /\ event.resp = OK /\ event.toEntityType = "Hospital")
    => units[event.unitId].status = "assigned"

\* A Transfer to a hospital succeeded.
C5_Witness ==
  /\ event.op = "Transfer"
  /\ event.resp = OK
  /\ event.toEntityType = "Hospital"
  /\ units[event.unitId].currentLocation.entityId \in Hospitals

\* C6: of two Transfer calls that read the same available unit before either
\* saved, only one gets past its save; the history never gains an entry from
\* each of them.
C6_ExactlyOneSucceeds ==
  \A p, q \in Procs :
    ( /\ p # q
      /\ call[p].op = "Transfer" /\ call[q].op = "Transfer"
      /\ call[p].unitId = call[q].unitId
      /\ pc[p] \notin {"idle", "tr_save"} )
    => ~( /\ pc[q] \notin {"idle", "tr_save"}
          /\ Len(local[p].unit.doc.transferHistory)
               = Len(local[q].unit.doc.transferHistory)
          /\ Len(units[call[p].unitId].transferHistory)
               > Len(local[p].unit.doc.transferHistory) )

\* C7: the stored status of a unit does not change when time passes its
\* expiry date: it changes only at the save of a SetStatus, to the status
\* asked for, and at the second save of a Transfer to a hospital, to assigned.
C7_StatusOnlyByHandlers ==
  [][ /\ now' # now => units' = units
      /\ \A u \in DOMAIN units :
           units'[u].status # units[u].status =>
             \E p \in Procs :
               /\ call[p].unitId = u
               /\ \/ pc[p] = "st_save" /\ units'[u].status = call[p].status
                  \/ pc[p] = "tr_assign" /\ units'[u].status = "assigned"
    ]_vars

\* A unit is available at or after its expiry date while no handler runs.
C7_Witness ==
  /\ \A p \in Procs : Idle(p)
  /\ \E u \in DOMAIN units : units[u].status = "available" /\ now >= units[u].expiryDate

\* C7 as stated: an available unit has not passed its expiry date.
C7_AvailableNotExpired ==
  \A u \in DOMAIN units : units[u].status = "available" => now < units[u].expiryDate

\* C8: the expiry date of every registered unit is its donation date plus 42
\* days, the donation date being the time of the registration when the call
\* gives none, and no later step changes the donation date or the expiry date.
C8_ExpiryDate ==
  [][ /\ \A u \in 1..Len(units') :
           /\ units'[u].expirySet
           /\ units'[u].expiryDate = units'[u].donationDate + ExpiryDays
      /\ \A u \in DOMAIN units :
           /\ units'[u].expiryDate = units[u].expiryDate
           /\ units'[u].donationDate = units[u].donationDate
      /\ \A p \in Procs :
           (pc[p] = "reg_save" /\ pc'[p] = "reg_stats") =>
             /\ Len(units') = Len(units) + 1
             /\ Last(units').donationDate =
                  IF call[p].dateGiven THEN call[p].dateValue ELSE now
    ]_vars

\* A unit registered with a donation date in the past went to a hospital.
C8_Witness ==
  \E u \in DOMAIN units :
    /\ units[u].donationDate < 0
    /\ units[u].status = "assigned"
    /\ Len(units[u].transferHistory) >= 1

\* C9: a successful Register by an NGO at one of its centers creates exactly
\* one unit: its status is processing, its NGO the caller, its current
\* location (the center, Center), its transfer history empty.
C9_RegisterCreates ==
  [][ /\ \A p \in Procs :
           (pc[p] = "reg_save" /\ pc'[p] = "reg_stats") =>
             /\ CenterOwner[call[p].centerId] = call[p].caller
             /\ Len(units') = Len(units) + 1
             /\ SubSeq(units', 1, Len(units)) = units
             /\ Last(units').status = "processing"
             /\ Last(units').ngoId = call[p].caller
             /\ Last(units').userId = call[p].userId
             /\ Last(units').bloodGroup = call[p].bloodGroup
             /\ Last(units').currentLocation.entityId = call[p].centerId
             /\ Last(units').currentLocation.entityType = "Center"
             /\ Last(units').transferHistory = << >>
      /\ \A p \in Procs :
           (call[p].op = "Register" /\ ~(pc[p] = "reg_save" /\ pc'[p] = "reg_stats"))
             => units' = units
      /\ (event'.op = "Register" /\ event'.resp = OK) =>
           /\ Len(units') >= 1
           /\ Last(units').status = "processing"
           /\ Last(units').ngoId = event'.caller
           /\ Last(units').currentLocation.entityId = event'.centerId
           /\ Last(units').currentLocation.entityType = "Center"
           /\ Last(units').transferHistory = << >>
    ]_vars

\* A Register was answered with success.
C9_Witness ==
  /\ event.op = "Register"
  /\ event.resp = OK
  /\ Len(units) = 1
  /\ units[1].userId = event.userId

\* C10: Register fails with the validation error (400) when the donor, the
\* center or the blood group is missing, and with the not-found error (404)
\* when the named center is not a center of the calling NGO; in each of these
\* failures no unit is created and no center and no NGO document changes.
C10_RegisterRejected ==
  [][ event'.op = "Register" =>
        LET missing == \/ event'.userId = NoVal
                       \/ event'.centerId = NoVal
                       \/ event'.bloodGroup = NoVal
            foreign == /\ ~missing
                       /\ \/ event'.centerId \notin Centers
                          \/ CenterOwner[event'.centerId] # event'.caller
        IN /\ missing => event'.resp = E400
           /\ foreign => event'.resp = E404
           /\ (missing \/ foreign) =>
                (units' = units /\ centers' = centers /\ ngos' = ngos)
    ]_vars

\* A Register naming the center of another NGO was answered not found.
C10_Witness ==
  /\ event.op = "Register"
  /\ event.resp = E404
  /\ event.centerId \in Centers
  /\ event.userId # NoVal

\* C10 as stated: a Register with a missing field or a center that is not the
\* caller's is answered with the validation error.
C10_ValidationError ==
  ( /\ event.op = "Register"
    /\ \/ event.userId = NoVal \/ event.centerId = NoVal \/ event.bloodGroup = NoVal
       \/ CenterOwner[event.centerId] # event.caller )
  => event.resp = E400

\* C11: SetStatus with a status outside processing, available, assigned,
\* used, expired, discarded is answered with the validation error; with a
\* status of the list, for a unit that does not exist or is not the calling
\* NGO's, it is answered not found; a SetStatus is taken up only for a unit of
\* the caller with a status of the list, and a rejected SetStatus leaves
\* every unit (status, location, history) as it was.
C11_SetStatusRejected ==
  [][ /\ (event'.op = "SetStatus" /\ \A p \in Procs : Idle(p)) =>
           LET valid == event'.status \in
                          {"processing", "available", "assigned", "used",
                           "expired", "discarded"}
               known == /\ event'.unitId \in DOMAIN units
                        /\ units[event'.unitId].ngoId = event'.caller
           IN /\ ~valid => event'.resp = E400
              /\ (valid /\ ~known) => event'.resp = E404
              /\ event'.resp # OK => units' = units
      /\ \A p \in Procs :
           (Idle(p) /\ pc'[p] = "st_save") =>
             /\ call'[p].unitId \in DOMAIN units
             /\ units[call'[p].unitId].ngoId = call'[p].caller
             /\ call'[p].status \in
                  {"processing", "available", "assigned", "used", "expired", "discarded"}
    ]_vars

\* A SetStatus with a status outside the list was rejected for a unit that had
\* been transferred.
C11_Witness ==
  /\ event.op = "SetStatus"
  /\ event.resp = E400
  /\ event.status = BadStatus
  /\ event.unitId \in DOMAIN units
  /\ Len(units[event.unitId].transferHistory) = 1

\* C12: the NGO of a unit never changes, and after any transfers, also one to
\* another NGO, a SetStatus or Transfer is taken up and succeeds only for the
\* NGO that registered the unit; a well-formed call by any other NGO, the
\* current holder included, is answered not found.
C12_OwnerOnly ==
  [][ /\ \A u \in DOMAIN units : units'[u].ngoId = units[u].ngoId
      /\ \A p \in Procs :
           (Idle(p) /\ pc'[p] \in {"st_save", "tr_save"}) =>
             units[call'[p].unitId].ngoId = call'[p].caller
      /\ ( /\ event'.op \in {"SetStatus", "Transfer"}
           /\ event'.unitId \in DOMAIN units'
           /\ units'[event'.unitId].ngoId # event'.caller ) =>
           /\ event'.resp \in {E400, E404}
           /\ units' = units
           /\ ( \/ event'.op = "SetStatus" /\ event'.status \in validStatuses
                \/ /\ event'.op = "Transfer"
                   /\ event'.toEntityId # NoVal
                   /\ event'.toEntityType \in validEntityTypes )
              => event'.resp = E404
    ]_vars

\* The NGO that holds a unit of another NGO asked to transfer it and was
\* answered not found.
C12_Witness ==
  /\ event.op = "Transfer"
  /\ event.resp = E404
  /\ event.unitId \in DOMAIN units
  /\ units[event.unitId].currentLocation.entityId = event.caller
  /\ units[event.unitId].ngoId # event.caller
  /\ units[event.unitId].status = "available"

\* C13: the inventory recompute of a center is idempotent: run on the stored
\* center document and run again on its result, with the same units and the
\* same time, it yields the same entries, with the same units and
\* availableUnits for every blood group.
C13_RecomputeIdempotent ==
  \A c \in Centers :
    LET once == SaveInventory(centers[c], centers[c], InventoryCounts(c))
        twice == SaveInventory(once, once, InventoryCounts(c))
    IN /\ twice.bloodInventory = once.bloodInventory
       /\ \A g \in GroupSet :
            /\ FindEntry(once.bloodInventory, g) # 0
            /\ once.bloodInventory[FindEntry(once.bloodInventory, g)].units
                 = InventoryCounts(c)[g].units
            /\ once.bloodInventory[FindEntry(once.bloodInventory, g)].availableUnits
                 = InventoryCounts(c)[g].availableUnits

\* A center whose inventory was recomputed by two overlapping handlers holds
\* the unit that they counted.
C13_Witness ==
  \E c \in Centers :
    /\ Len(centers[c].bloodInventory) > Len(BloodGroups)
    /\ \E u \in DOMAIN units : units[u].currentLocation.entityId = c
    /\ \A p \in Procs : Idle(p)

\* C14: with one call handled at a time, after a Register, SetStatus or
\* Transfer was answered with success the inventory of every center holds,
\* for every blood group, the counts a recompute of that center would read
\* now (no entry standing for no unit), and the source recompute of a Transfer
\* is that of the center the unit was held at before the transfer.
C14_CacheIsFresh ==
  /\ ( /\ \A p \in Procs : Idle(p)
       /\ event.op \in {"Register", "SetStatus", "Transfer"}
       /\ event.resp = OK ) =>
       \A c \in Centers, g \in GroupSet :
         LET inv == centers[c].bloodInventory
             i == FindEntry(inv, g)
         IN /\ (IF i = 0 THEN 0 ELSE inv[i].units) = totalCount(c, g)
            /\ (IF i = 0 THEN 0 ELSE inv[i].availableUnits) = availableCount(c, g)
  /\ \A p \in Procs :
       pc[p] = "tr_src_save" =>
         LET e == Last(units[call[p].unitId].transferHistory)
         IN e.fromType = "Center" => local[p].held = e.fromId

\* C15: after a call that recomputed inventories was answered with success,
\* every entry of a center's inventory has units equal to the number of units
\* of that blood group whose current location is the center, and
\* availableUnits equal to the number of those whose status is available.
C15_CountsUnitsAtCenter ==
  ( /\ \A p \in Procs : Idle(p)
    /\ event.op \in {"Register", "SetStatus", "Transfer"}
    /\ event.resp = OK ) =>
    \A c \in Centers, g \in GroupSet :
      LET inv == centers[c].bloodInventory
          i == FindEntry(inv, g)
          here == { u \in DOMAIN units :
                      /\ units[u].bloodGroup = g
                      /\ units[u].currentLocation.entityId = c
                      /\ units[u].currentLocation.entityType = "Center" }
      IN i # 0 =>
           /\ inv[i].units = Cardinality(here)
           /\ inv[i].availableUnits =
                Cardinality({ u \in here : units[u].status = "available" })

C17_ForwardOnly ==
  [][ \A r \in DOMAIN requests :
        LET rank == [ st \in validRequestStatuses |->
                        CASE st = "Pending" -> 0
                          [] st \in {"Accepted", "Rejected"} -> 1
                          [] st = "Processing" -> 2
                          [] st = "En Route" -> 3
                          [] st = "Delivered" -> 4
                          [] st = "Completed" -> 5 ]
        IN rank[requests'[r].status] >= rank[requests[r].status]
    ]_vars

\* C18: once the status of a request is Rejected or Completed no later step
\* changes it.
C18_TerminalStatuses ==
  [][ \A r \in DOMAIN requests :
        requests[r].status \in {"Rejected", "Completed"} =>
          requests'[r].status = requests[r].status
    ]_vars

\* C19: Create is answered with the validation error when bloodGroups is
\* absent or empty or an entry has no blood group or no unit count, and a
\* Create that is not answered with success stores nothing; a successful
\* Create stores exactly one request, in status Pending, of the calling
\* hospital, to the NGO named, with the blood groups asked for.
C19_CreateRequest ==
  [][ event'.op = "Create" =>
        LET gl == event'.bloodGroups
            empty == ~event'.groupsGiven \/ Len(gl) = 0
            lacking == \E i \in 1..Len(gl) :
                         gl[i].bloodGroup = NoVal \/ gl[i].units = 0
        IN /\ (empty \/ lacking) => event'.resp = E400
           /\ event'.resp # OK => requests' = requests
           /\ event'.resp = OK =>
                /\ Len(requests') = Len(requests) + 1
                /\ SubSeq(requests', 1, Len(requests)) = requests
                /\ Last(requests').status = "Pending"
                /\ Last(requests').hospitalId = event'.caller
                /\ Last(requests').ngoId = event'.ngoId
                /\ Last(requests').bloodGroups = gl
    ]_vars

\* A Create with an entry that has no unit count was rejected.
C19_Witness ==
  /\ event.op = "Create"
  /\ event.resp = E400
  /\ event.ngoId # NoVal
  /\ Len(event.bloodGroups) = 1
  /\ event.bloodGroups[1].units = 0
  /\ requests = << >>

\* C20: a ConfirmDelivery is taken up only for a request of the calling
\* hospital whose status is En Route, and then stores status Delivered, the
\* receiver and a confirmation code (the one given, if any) and is answered
\* with success; a ConfirmDelivery that names a receiver, for a request that
\* is missing, of another hospital or in another status, is answered not
\* found, and a rejected ConfirmDelivery leaves every request as it was.
C20_ConfirmDelivery ==
  [][ /\ \A p \in Procs :
           (Idle(p) /\ pc'[p] = "cd_save") =>
             /\ call'[p].requestId \in DOMAIN requests
             /\ requests[call'[p].requestId].hospitalId = call'[p].caller
             /\ requests[call'[p].requestId].status = "En Route"
      /\ \A p \in Procs :
           (pc[p] = "cd_save" /\ pc'[p] # "cd_save") =>
             LET r == requests'[call[p].requestId]
             IN /\ event'.op = "ConfirmDelivery" /\ event'.resp = OK
                /\ r.status = "Delivered"
                /\ r.deliveryDetails.receivedBy = call[p].receivedBy
                /\ r.deliveryDetails.confirmationCode # NoVal
                /\ call[p].confirmationCode # NoVal =>
                     r.deliveryDetails.confirmationCode = call[p].confirmationCode
      /\ (event'.op = "ConfirmDelivery" /\ \A p \in Procs : Idle(p)) =>
           /\ event'.resp # OK
           /\ requests' = requests
           /\ ( /\ event'.receivedBy # NoVal
                /\ ~( /\ event'.requestId \in DOMAIN requests
                      /\ requests[event'.requestId].hospitalId = event'.caller
                      /\ requests[event'.requestId].status = "En Route" ) )
              => event'.resp = E404
    ]_vars

\* A ConfirmDelivery by the hospital of a request that is already Delivered
\* was answered not found.
C20_Witness ==
  /\ event.op = "ConfirmDelivery"
  /\ event.resp = E404
  /\ event.requestId \in DOMAIN requests
  /\ requests[event.requestId].hospitalId = event.caller
  /\ requests[event.requestId].status = "Delivered"
  /\ requests[event.requestId].deliveryDetails.confirmationCode = GeneratedCode

\* C21: the status of a request changes only in a step of a call made by the
\* NGO the request is addressed to or by the hospital that created it, a
\* Transfer by another NGO that names the request's id leaves it alone, and
\* no request is ever deleted.
C21_OwnersOnly ==
  [][ /\ Len(requests') >= Len(requests)
      /\ \A r \in DOMAIN requests :
           requests'[r].status # requests[r].status =>
             \E p \in Procs :
               /\ pc[p] # "idle"
               /\ call[p].caller \in {requests[r].ngoId, requests[r].hospitalId}
    ]_vars

\* C22: a Transfer changes the status of a request only when its destination
\* is a Hospital, it names the request and the request is Pending or
\* Accepted, and the new status is Processing; a successful Transfer to a
\* Hospital that names a request leaves it neither Pending nor Accepted; a
\* Transfer without request id, to an NGO or a Center, or naming a request in
\* another status changes the status of no request.
C22_TransferBindsRequest ==
  [][ /\ \A r \in DOMAIN requests :
           requests'[r] # requests[r] =>
             \E p \in Procs :
               /\ pc[p] = "tr_req_save"
               /\ call[p].toEntityType = "Hospital"
               /\ call[p].requestId = r
               /\ requests[r].status \in {"Pending", "Accepted"}
               /\ requests'[r] = [requests[r] EXCEPT !.status = "Processing"]
      /\ Len(requests') = Len(requests)
      /\ ( /\ event' # event
           /\ event'.op = "Transfer"
           /\ event'.resp = OK
           /\ event'.toEntityType = "Hospital"
           /\ event'.requestId \in DOMAIN requests )
         => requests'[event'.requestId].status \notin {"Pending", "Accepted"}
    ]_vars

\* A Transfer to a hospital that named a request succeeded and the request is
\* Processing.
C22_Witness ==
  /\ event.op = "Transfer"
  /\ event.resp = OK
  /\ event.toEntityType = "Hospital"
  /\ event.requestId \in DOMAIN requests
  /\ requests[event.requestId].status = "Processing"

\* C23: an AdvanceStatus on a request that is not addressed to the calling
\* NGO is answered not found, one whose status is not one of the seven is
\* answered with a validation error, and either leaves every request and the
\* served-hospital counter of every NGO unchanged.
C23_AdvanceRejected ==
  [][ /\ (event'.op = "AdvanceStatus" /\ \A p \in Procs : Idle(p)) =>
           LET valid == event'.status \in
                          {"Pending", "Accepted", "Rejected", "Processing",
                           "En Route", "Delivered", "Completed"}
               known == /\ event'.requestId \in DOMAIN requests
                        /\ requests[event'.requestId].ngoId = event'.caller
           IN /\ ~valid => event'.resp = E400
              /\ (valid /\ ~known) => event'.resp = E404
              /\ event'.resp # OK => requests' = requests /\ ngos' = ngos
      /\ \A p \in Procs :
           (Idle(p) /\ pc'[p] = "rs_save") =>
             /\ call'[p].requestId \in DOMAIN requests
             /\ requests[call'[p].requestId].ngoId = call'[p].caller
             /\ call'[p].status \in
                  {"Pending", "Accepted", "Rejected", "Processing",
                   "En Route", "Delivered", "Completed"}
    ]_vars

\* An NGO asked to complete a request addressed to another NGO and was
\* answered not found.
C23_Witness ==
  /\ event.op = "AdvanceStatus"
  /\ event.resp = E404
  /\ event.status = "Completed"
  /\ event.requestId \in DOMAIN requests
  /\ requests[event.requestId].ngoId # event.caller

\* C24: in a sequence of calls the served-hospital counter of an NGO changes
\* only at the last step of an AdvanceStatus to Completed by that NGO, by
\* exactly one, and every AdvanceStatus to Completed that succeeds has
\* incremented it; the counter therefore counts those calls, whatever the
\* number of requests that are Completed.
C24_ServedCounter ==
  [][ /\ \A n \in NGOs :
           ngos'[n].totalHospitalsServed # ngos[n].totalHospitalsServed =>
             /\ ngos'[n].totalHospitalsServed = ngos[n].totalHospitalsServed + 1
             /\ \E p \in Procs :
                  /\ pc[p] = "rs_ngo_save"
                  /\ call[p].caller = n
                  /\ call[p].status = "Completed"
                  /\ event' = [call[p] EXCEPT !.resp = OK]
      /\ \A p \in Procs :
           ( /\ ~Idle(p)
             /\ Idle(p)'
             /\ event'.op = "AdvanceStatus"
             /\ event'.status = "Completed"
             /\ event'.resp = OK )
           => ngos'[event'.caller].totalHospitalsServed =
                ngos[event'.caller].totalHospitalsServed + 1
    ]_vars

\* An NGO has completed requests twice while one request exists.
C24_Witness ==
  /\ event.op = "AdvanceStatus"
  /\ event.status = "Completed"
  /\ event.resp = OK
  /\ ngos[event.caller].totalHospitalsServed = 2
  /\ Len(requests) = 1

\* C25: a Transfer that fails at one of its database operations leaves the
\* stored unit either as it was before the call, which is the case when the
\* failing operation is the first save, or fully transferred: held by the
\* destination, with the ledger entry to it as last entry, and assigned when
\* the destination is a Hospital.
C25_AllOrNothing ==
  [][ \A p \in Procs :
        ( /\ call[p].op = "Transfer"
          /\ ~Idle(p)
          /\ Idle(p)'
          /\ event'.resp = E500 )
        => LET u == units'[call[p].unitId]
           IN \/ pc[p] = "tr_save" /\ units' = units
              \/ /\ u.currentLocation.entityId = call[p].toEntityId
                 /\ u.currentLocation.entityType = call[p].toEntityType
                 /\ Last(u.transferHistory).toId = call[p].toEntityId
                 /\ call[p].toEntityType = "Hospital" => u.status = "assigned"
    ]_vars

\* C26: the list of expiring units answered to an NGO asking for d days holds
\* exactly the units of that NGO whose status is available and whose expiry
\* date lies between now and now + d, each once, by ascending expiry date;
\* d is 7 when the call gives none.
C26_ListExpiring ==
  [][ (event'.op = "ListExpiring" /\ now' = now) =>
        LET d == IF event'.days = "1" THEN 1 ELSE 7
            res == event'.found
            want == { u \in DOMAIN units :
                        /\ units[u].ngoId = event'.caller
                        /\ units[u].status = "available"
                        /\ now <= units[u].expiryDate
                        /\ units[u].expiryDate <= now + d }
        IN /\ event'.resp = OK
           /\ { res[i] : i \in DOMAIN res } = want
           /\ \A i, j \in DOMAIN res : i # j => res[i] # res[j]
           /\ \A i, j \in DOMAIN res :
                i < j => units[res[i]].expiryDate <= units[res[j]].expiryDate
    ]_vars

\* An NGO with three available units, one of them past its expiry date, was
\* answered the two others, which expire on different days.
C26_Witness ==
  /\ event.op = "ListExpiring"
  /\ Len(units) = 3
  /\ \A u \in DOMAIN units :
       units[u].ngoId = event.caller /\ units[u].status = "available"
  /\ \E u \in DOMAIN units : units[u].expiryDate < now
  /\ DOMAIN event.found = 1..2
  /\ units[event.found[1]].expiryDate < units[event.found[2]].expiryDate

C27_TransferScenario ==
  [][ \A p \in Procs :
        LET c == call[p]
            scenario == /\ c.op = "Transfer"
                        /\ c.caller = "n1"
                        /\ c.unitId \in DOMAIN units
                        /\ units[c.unitId].centerId = "c1"
                        /\ c.toEntityId = "h1"
                        /\ c.toEntityType = "Hospital"
                        /\ c.requestId = 1
        IN /\ ( /\ scenario
                /\ pc[p] = "tr_req"
                /\ pc'[p] # "tr_req"
                /\ Len(requests) = 1
                /\ requests[1].status = "Pending" )
              => pc'[p] = "tr_req_save"
           /\ ( /\ scenario
                /\ pc[p] = "tr_req_save"
                /\ pc'[p] # "tr_req_save"
                /\ requests[1].status = "Pending" )
              => requests'[1].status = "Processing"
           /\ ( /\ scenario
                /\ ~Idle(p)
                /\ Idle(p)'
                /\ event'.resp = OK
                /\ Len(units'[c.unitId].transferHistory) = 1
                /\ Len(requests) = 1
                /\ requests[1].status \in {"Pending", "Processing"} )
              => /\ units'[c.unitId].status = "assigned"
                 /\ units'[c.unitId].currentLocation.entityId = "h1"
                 /\ units'[c.unitId].currentLocation.entityType = "Hospital"
                 /\ units'[c.unitId].transferHistory =
                      << [ fromId |-> "c1", fromType |-> "Center",
                           toId |-> "h1", toType |-> "Hospital" ] >>
                 /\ requests'[1].status = "Processing"
    ]_vars

\* The scenario has run: the Transfer naming request 1 succeeded, the unit of
\* c1 is assigned with one ledger entry and the request is Processing.
C27_Witness ==
  /\ event.op = "Transfer"
  /\ event.resp = OK
  /\ event.caller = "n1"
  /\ event.toEntityId = "h1"
  /\ event.requestId = 1
  /\ Len(units) = 1
  /\ units[1].centerId = "c1"
  /\ units[1].status = "assigned"
  /\ Len(units[1].transferHistory) = 1
  /\ Len(requests) = 1
  /\ requests[1].hospitalId = "h1"
  /\ requests[1].status = "Processing"

\* C28: in every stored unit the ledger is an unbroken chain of holders: the
\* first entry leaves the collecting center and each later entry leaves the
\* holder the entry before it went to.
C28_UnbrokenChain ==
  \A u \in DOMAIN units :
    LET h == units[u].transferHistory
    IN /\ h # << >> => h[1].fromId = units[u].centerId /\ h[1].fromType = "Center"
       /\ \A i \in 2..Len(h) :
            h[i].fromId = h[i - 1].toId /\ h[i].fromType = h[i - 1].toType

\* C29: a stored unit whose current holder is a Hospital is not available.
C29_HospitalNotAvailable ==
  \A u \in DOMAIN units :
    units[u].currentLocation.entityType = "Hospital" => units[u].status # "available"

====
